---- MODULE Spec2Model ----
(***************************************************************************)
(* Model of the Code4rena report parser (src/parse_code4rena_reports.py):  *)
(* the numeric normalizer, the scope interpreter, the severity-section     *)
(* walker with its three finding formats, and the batch loop.              *)
(*                                                                         *)
(* Texts are sequences of one-character strings, so that the regular       *)
(* expressions, split and strip of the source are computed character by    *)
(* character.  A link target (href) is a sequence of path tokens, host     *)
(* first; the source's substring tests on it are token membership.         *)
(***************************************************************************)
EXTENDS Integers, Sequences, FiniteSets, TLC

VARIABLES
    num_in,         \* normalize_number: the argument
    num_out,        \* normalize_number: the returned value, once the call is done
    urls,           \* process_reports_from_file: the URL list, each with its fetch result
    idx,            \* index of the URL the for loop is at
    pc,             \* position inside the loop body
    soup,           \* parse_code4rena_report: the parsed document
    scope,          \* the ScopeRecord of the current document
    title,          \* report_title of the current document
    all_issues,     \* extract_all_issues: the list being built
    phase,          \* which loop of extract_all_issues is running
    block,          \* index of the h1 whose section is being walked
    sib,            \* index of the sibling the walk is at
    issue_counter,  \* the Low/Non-Critical section counter
    origin,         \* (history) for each record of all_issues, the node/item it came from
    returned,       \* (history) what parse_code4rena_report returned for each URL
    written,        \* the output files: slug -> record
    log             \* the messages printed by the batch loop

vars == <<num_in, num_out, urls, idx, pc, soup, scope, title, all_issues, phase,
          block, sib, issue_counter, origin, returned, written, log>>

docvars == <<urls, idx, pc, soup, scope, title, all_issues, phase, block, sib,
             issue_counter, origin, returned, written, log>>

-----------------------------------------------------------------------------
(* Characters and strings *)

Digit == {"0", "1", "2", "3", "4", "5", "6", "7", "8", "9"}

LowerCase == <<"a", "b", "c", "d", "e", "f", "g", "h", "i", "j", "k", "l", "m",
               "n", "o", "p", "q", "r", "s", "t", "u", "v", "w", "x", "y", "z">>

UpperCase == <<"A", "B", "C", "D", "E", "F", "G", "H", "I", "J", "K", "L", "M",
               "N", "O", "P", "Q", "R", "S", "T", "U", "V", "W", "X", "Y", "Z">>

Range(f) == {f[i] : i \in DOMAIN f}

\* \s of the re module, over the characters the model uses
IsSpace(c) == c \in {" ", "\n", "\t"}

IsDigit(c) == c \in Digit

\* \w of the re module
IsWordChar(c) == c \in Digit \cup Range(LowerCase) \cup Range(UpperCase) \cup {"_"}

\* str.lower on one character
Lower(c) ==
    IF c \in Range(UpperCase)
    THEN LowerCase[CHOOSE i \in DOMAIN UpperCase : UpperCase[i] = c]
    ELSE c

DigitValue(c) == CHOOSE n \in 0..9 : <<"0", "1", "2", "3", "4", "5", "6", "7", "8", "9">>[n + 1] = c

\* s[i:] (1-based, inclusive)
From(s, i) == IF i > Len(s) THEN <<>> ELSE SubSeq(s, i, Len(s))

\* case-sensitive / case-insensitive "the literal w occurs in s at position i"
LitAt(s, i, w) ==
    /\ i >= 1
    /\ i + Len(w) - 1 <= Len(s)
    /\ \A k \in 1..Len(w) : s[i + k - 1] = w[k]

LitAtI(s, i, w) ==
    /\ i >= 1
    /\ i + Len(w) - 1 <= Len(s)
    /\ \A k \in 1..Len(w) : Lower(s[i + k - 1]) = Lower(w[k])

\* the python test  w in s
Contains(s, w) == \E i \in 1..(Len(s) + 1) : LitAt(s, i, w)

StartsWith(s, w) == LitAt(s, 1, w)

\* str.lower
LowerStr(s) == [i \in DOMAIN s |-> Lower(s[i])]

\* str.strip()
RECURSIVE LStrip(_)
LStrip(s) == IF s # <<>> /\ IsSpace(Head(s)) THEN LStrip(Tail(s)) ELSE s

RECURSIVE RStrip(_)
RStrip(s) ==
    IF s # <<>> /\ IsSpace(s[Len(s)]) THEN RStrip(SubSeq(s, 1, Len(s) - 1)) ELSE s

Strip(s) == RStrip(LStrip(s))

\* " ".join(parts)
RECURSIVE Join(_)
Join(parts) ==
    IF parts = <<>> THEN <<>>
    ELSE IF Len(parts) = 1 THEN parts[1]
    ELSE parts[1] \o <<" ">> \o Join(Tail(parts))

NonEmpty(t) == t # <<>>

-----------------------------------------------------------------------------
(* 1. normalize_number *)

\* the state of the call: done = FALSE before it returns
NotCalled == [done |-> FALSE, value |-> 0]

\* re.sub(r"[^\d]", "", num_str)
StripNonDigits(s) == SelectSeq(s, IsDigit)

RECURSIVE DigitsValue(_)
DigitsValue(s) ==
    IF s = <<>> THEN 0
    ELSE 10 * DigitsValue(SubSeq(s, 1, Len(s) - 1)) + DigitValue(s[Len(s)])

\* int(s): surrounding whitespace is ignored; an empty string or any other
\* character raises ValueError (signs and underscores are not in the model's
\* alphabet)
IntRaises(s) ==
    LET t == Strip(s) IN t = <<>> \/ \E i \in DOMAIN t : ~IsDigit(t[i])

PyInt(s) == DigitsValue(Strip(s))

\* a plausible slip: only the comma and the tilde are removed
StripCommaTilde(s) == SelectSeq(s, LAMBDA c : c \notin {",", "~"})

normalize_number_keeps_units(num_str) ==
    IF num_str = <<>> THEN 0
    ELSE LET cleaned == StripCommaTilde(num_str)
         IN  IF IntRaises(cleaned) THEN 0 ELSE PyInt(cleaned)

normalize_number(num_str) ==
    IF num_str = <<>> THEN 0
    ELSE LET cleaned == StripNonDigits(num_str)
         IN  IF IntRaises(cleaned) THEN 0 ELSE PyInt(cleaned)

-----------------------------------------------------------------------------
(* The literals of the source, as character sequences *)

W_scope == <<"s", "c", "o", "p", "e">>
W_high == <<"h", "i", "g", "h", "-", "r", "i", "s", "k", "-", "f", "i", "n", "d", "i", "n", "g", "s">>
W_medium == <<"m", "e", "d", "i", "u", "m", "-", "r", "i", "s", "k", "-", "f", "i", "n", "d", "i", "n", "g", "s">>
W_low == <<"l", "o", "w", "-", "r", "i", "s", "k">>
W_noncrit == <<"n", "o", "n", "-", "c", "r", "i", "t", "i", "c", "a", "l">>
W_Solidity == <<"S", "o", "l", "i", "d", "i", "t", "y">>
W_smart == <<"s", "m", "a", "r", "t">>
W_contract == <<"c", "o", "n", "t", "r", "a", "c", "t">>
W_source == <<"s", "o", "u", "r", "c", "e">>
W_lines == <<"l", "i", "n", "e", "s">>
W_of == <<"o", "f">>
W_code == <<"c", "o", "d", "e">>
W_written == <<"w", "r", "i", "t", "t", "e", "n">>
W_in == <<"i", "n">>

-----------------------------------------------------------------------------
(* The document: the sequence of sibling tags at the level of the headings.   *)
(* text is the tag's get_text(" ", strip=True); links are the targets of its   *)
(* <a href=...> descendants in document order; items are the direct <li>       *)
(* children of a <ul>.                                                         *)

Node(name, has_id, id, text, links, items) ==
    [name |-> name, has_id |-> has_id, id |-> id, text |-> text, links |-> links,
     items |-> items]

\* a <li>: anchor is "none" (no <a>), "href" (<a href=...>) or "nohref" (<a> without
\* a target); atext is the text of the first <a>, em the text of the first <em>
Item(anchor, href, atext, has_em, em) ==
    [anchor |-> anchor, href |-> href, atext |-> atext, has_em |-> has_em, em |-> em]

ItemText(li) == Join(SelectSeq(<<li.atext, li.em>>, NonEmpty))

RECURSIVE ItemLinks(_)
ItemLinks(items) ==
    IF items = <<>> THEN <<>>
    ELSE (IF Head(items).anchor = "href" THEN <<Head(items).href>> ELSE <<>>)
         \o ItemLinks(Tail(items))

Texts(nodes) == [i \in DOMAIN nodes |-> nodes[i].text]

H1(id, text) == Node("h1", TRUE, id, text, <<>>, <<>>)
H1NoId(text) == Node("h1", FALSE, <<>>, text, <<>>, <<>>)
H2(text, links) == Node("h2", FALSE, <<>>, text, links, <<>>)
P(text, links) == Node("p", FALSE, <<>>, text, links, <<>>)
Ul(items) ==
    Node("ul", FALSE, <<>>, Join(SelectSeq([i \in DOMAIN items |-> ItemText(items[i])], NonEmpty)),
         ItemLinks(items), items)

\* tag.find_next_sibling() repeated until an <h1>: the index of the first <h1>
\* after position h, Len(doc) + 1 when there is none
RECURSIVE NextH1After(_, _)
NextH1After(doc, h) ==
    IF h + 1 > Len(doc) THEN Len(doc) + 1
    ELSE IF doc[h + 1].name = "h1" THEN h + 1
    ELSE NextH1After(doc, h + 1)

\* the python test  "github.com" in href  on a tokenised target
HrefContains(href, token) == \E i \in DOMAIN href : href[i] = token

-----------------------------------------------------------------------------
(* 2. Scope *)

\* a slip: the heading level is not checked
find_any_tag(doc, section_id) ==
    LET hits == {i \in DOMAIN doc : doc[i].has_id /\ doc[i].id = section_id}
    IN  IF hits = {} THEN 0 ELSE CHOOSE i \in hits : \A j \in hits : i <= j

\* soup.find("h1", id=section_id): index of the first such heading, 0 for None
find_h1(doc, section_id) ==
    LET hits == {i \in DOMAIN doc :
                    doc[i].name = "h1" /\ doc[i].has_id /\ doc[i].id = section_id}
    IN  IF hits = {} THEN 0 ELSE CHOOSE i \in hits : \A j \in hits : i <= j

\* a slip: the walk does not stop at the next <h1>
get_section_html_to_end(doc, section_id) ==
    LET header == find_h1(doc, section_id)
    IN  IF header = 0 THEN [found |-> FALSE, nodes |-> <<>>]
        ELSE [found |-> TRUE, nodes |-> SubSeq(doc, header + 1, Len(doc))]

\* get_section_html: found = FALSE is None; nodes are the tags whose html is
\* concatenated (the string is empty exactly when there is none)
get_section_html(doc, section_id) ==
    LET header == find_h1(doc, section_id)
    IN  IF header = 0 THEN [found |-> FALSE, nodes |-> <<>>]
        ELSE [found |-> TRUE,
              nodes |-> SubSeq(doc, header + 1, NextH1After(doc, header) - 1)]

RECURSIVE FlattenLinks(_)
FlattenLinks(nodes) ==
    IF nodes = <<>> THEN <<>> ELSE Head(nodes).links \o FlattenLinks(Tail(nodes))

\* BeautifulSoup(section_html).get_text(" ", strip=True)
SectionText(nodes) == Join(SelectSeq(Texts(nodes), NonEmpty))

NoRepository == <<>>

\* parse_repository_link over the links of the section, NoRepository for None
RECURSIVE parse_repository_link(_)
parse_repository_link(links) ==
    IF links = <<>> THEN NoRepository
    ELSE IF HrefContains(Head(links), "github.com") /\ HrefContains(Head(links), "code-423n4")
         THEN Head(links)
         ELSE parse_repository_link(Tail(links))

\* [\d,~]
IsNumChar(c) == IsDigit(c) \/ c \in {",", "~"}

\* the end of the greedy run [\d,~]+ that starts at i
RECURSIVE NumRunEnd(_, _)
NumRunEnd(s, i) ==
    IF i + 1 <= Len(s) /\ IsNumChar(s[i + 1]) THEN NumRunEnd(s, i + 1) ELSE i

\* the position after the greedy run \s* that starts at k
RECURSIVE SkipSpaces(_, _)
SkipSpaces(s, k) ==
    IF k <= Len(s) /\ IsSpace(s[k]) THEN SkipSpaces(s, k + 1) ELSE k

\* w1\s+w2\s+...wn matched case-insensitively at position k
RECURSIVE PhraseAtI(_, _, _)
PhraseAtI(s, k, ws) ==
    /\ LitAtI(s, k, Head(ws))
    /\ \/ Len(ws) = 1
       \/ LET k2 == k + Len(Head(ws))
          IN  /\ k2 <= Len(s)
              /\ IsSpace(s[k2])
              /\ PhraseAtI(s, SkipSpaces(s, k2), Tail(ws))

\* ([\d,~]+)\s+ followed by one of the phrases, matched at position i
NumberThenPhraseAt(s, i, phrases) ==
    /\ i <= Len(s)
    /\ IsNumChar(s[i])
    /\ LET j == NumRunEnd(s, i) + 1
       IN  /\ j <= Len(s)
           /\ IsSpace(s[j])
           /\ \E ph \in phrases : PhraseAtI(s, SkipSpaces(s, j), ph)

\* ([\d,~]+)\s+(?:smart\s+)?contracts?
ContractPhrases == {<<W_smart, W_contract>>, <<W_contract>>}

\* ([\d,~]+)\s+(?:source\s+lines|lines\s+of\s+Solidity|lines\s+of\s+Solidity\s+code
\*              |lines\s+of\s+code\s+written\s+in\s+Solidity)
LinePhrases ==
    {<<W_source, W_lines>>, <<W_lines, W_of, W_Solidity>>,
     <<W_lines, W_of, W_Solidity, W_code>>,
     <<W_lines, W_of, W_code, W_written, W_in, W_Solidity>>}

NoMatch == [matched |-> FALSE, group1 |-> <<>>]

\* re.search scans the start positions left to right and returns the first match
RECURSIVE SearchFrom(_, _, _)
SearchFrom(s, i, phrases) ==
    IF i > Len(s) THEN NoMatch
    ELSE IF NumberThenPhraseAt(s, i, phrases)
         THEN [matched |-> TRUE, group1 |-> SubSeq(s, i, NumRunEnd(s, i))]
         ELSE SearchFrom(s, i + 1, phrases)

\* a slip: the last match is kept, as a loop over finditer would
RECURSIVE SearchBack(_, _, _)
SearchBack(s, i, phrases) ==
    IF i < 1 THEN NoMatch
    ELSE IF NumberThenPhraseAt(s, i, phrases) /\ (i = 1 \/ ~IsNumChar(s[i - 1]))
         THEN [matched |-> TRUE, group1 |-> SubSeq(s, i, NumRunEnd(s, i))]
         ELSE SearchBack(s, i - 1, phrases)

re_search_last(s, phrases) == SearchBack(s, Len(s), phrases)

re_search(s, phrases) == SearchFrom(s, 1, phrases)

\* \bSolidity\b with re.IGNORECASE, matched at position i
MarkerAt(s, i) ==
    /\ LitAtI(s, i, W_Solidity)
    /\ (i = 1 \/ ~IsWordChar(s[i - 1]))
    /\ (i + Len(W_Solidity) > Len(s) \/ ~IsWordChar(s[i + Len(W_Solidity)]))

\* re.search(r"\bSolidity\b", scope_text, re.IGNORECASE)
mentions_solidity(scope_text) == \E i \in DOMAIN scope_text : MarkerAt(scope_text, i)

NoScope == [ok |-> FALSE, repository |-> NoRepository, contracts |-> 0, lines_solidity |-> 0]

\* the element of a set of one element: a local of the code, computed once
Only(S) == CHOOSE x \in S : TRUE

\* parse_scope_section: ok = FALSE is None
parse_scope_section(doc) ==
    LET section == get_section_html(doc, W_scope)
    IN  IF ~section.found \/ section.nodes = <<>> THEN NoScope
        ELSE Only({
            IF ~mentions_solidity(scope_text) THEN NoScope
            ELSE Only({
                [ok |-> TRUE,
                 repository |-> parse_repository_link(FlattenLinks(section.nodes)),
                 contracts |-> IF m_contracts.matched
                               THEN normalize_number(m_contracts.group1) ELSE 0,
                 lines_solidity |-> IF m_lines.matched
                                    THEN normalize_number(m_lines.group1) ELSE 0]
                : m_contracts \in {re_search(scope_text, ContractPhrases)},
                  m_lines \in {re_search(scope_text, LinePhrases)}})
            : scope_text \in {SectionText(section.nodes)}})

-----------------------------------------------------------------------------
(* 3. Issues *)

\* SEVERITY_MAP.get(letter, "Info")
SEVERITY_MAP(letter) ==
    CASE letter = "H" -> "High"
      [] letter = "M" -> "Medium"
      [] letter = "L" -> "Low"
      [] letter = "N" -> "Non-Critical"
      [] letter = "G" -> "Gas"
      [] OTHER -> "Info"

\* the end of the greedy run \d+ that starts at i
RECURSIVE DigitRunEnd(_, _)
DigitRunEnd(s, i) ==
    IF i + 1 <= Len(s) /\ IsDigit(s[i + 1]) THEN DigitRunEnd(s, i + 1) ELSE i

\* re.match(r"\[(H|M|L|N|G)-\d+\]", text): the position of the closing bracket,
\* 0 when there is no match
HeadingTagEnd(text) ==
    IF /\ Len(text) >= 5
       /\ text[1] = "["
       /\ text[2] \in {"H", "M", "L", "N", "G"}
       /\ text[3] = "-"
       /\ IsDigit(text[4])
       /\ DigitRunEnd(text, 4) + 1 <= Len(text)
       /\ text[DigitRunEnd(text, 4) + 1] = "]"
    THEN DigitRunEnd(text, 4) + 1
    ELSE 0

\* re.match(r"\[\d+\]", txt)
NumberTagEnd(text) ==
    IF /\ Len(text) >= 3
       /\ text[1] = "["
       /\ IsDigit(text[2])
       /\ DigitRunEnd(text, 2) + 1 <= Len(text)
       /\ text[DigitRunEnd(text, 2) + 1] = "]"
    THEN DigitRunEnd(text, 2) + 1
    ELSE 0

\* re.match(r"\[(L-\d+)\]", text)
LowTagEnd(text) ==
    IF HeadingTagEnd(text) # 0 /\ text[2] = "L" THEN HeadingTagEnd(text) ELSE 0

\* text.split("]", 1)[1].strip(), for a text that holds a "]"
AfterFirstBracket(text) ==
    LET k == CHOOSE i \in DOMAIN text : text[i] = "]" /\ \A j \in 1..(i - 1) : text[j] # "]"
    IN  Strip(From(text, k + 1))

\* f"{n:02d}"
RECURSIVE Decimal(_)
Decimal(n) ==
    IF n < 10 THEN <<<<"0", "1", "2", "3", "4", "5", "6", "7", "8", "9">>[n + 1]>>
    ELSE Decimal(n \div 10) \o Decimal(n % 10)

TwoDigits(n) == IF n < 10 THEN <<"0">> \o Decimal(n) ELSE Decimal(n)

Issue(issue_id, ttl, severity, description, links) ==
    [issue_id |-> issue_id, title |-> ttl, severity |-> severity,
     description |-> description, vulnerable_code_links |-> links]

NoIssue == [matched |-> FALSE, issue |-> Issue(<<>>, <<>>, "", <<>>, {})]

\* a slip: the loop stops at any <h2>
RECURSIVE AnyH2Stop(_, _)
AnyH2Stop(doc, t) ==
    IF t + 1 > Len(doc) THEN Len(doc) + 1
    ELSE IF doc[t + 1].name = "h2" THEN t + 1
    ELSE AnyH2Stop(doc, t + 1)

\* the sibling at which the while loop of parse_issue_from_h2 stops: the first
\* <h2> after t whose text matches the heading tag, Len(doc) + 1 at the end
RECURSIVE TaggedStop(_, _)
TaggedStop(doc, t) ==
    IF t + 1 > Len(doc) THEN Len(doc) + 1
    ELSE IF doc[t + 1].name = "h2" /\ HeadingTagEnd(doc[t + 1].text) # 0 THEN t + 1
    ELSE TaggedStop(doc, t + 1)

\* the sibling at which the while loop of the bracket-numbered case stops: the
\* first <h2> or <h1> after t
RECURSIVE NumberedStop(_, _)
NumberedStop(doc, t) ==
    IF t + 1 > Len(doc) THEN Len(doc) + 1
    ELSE IF doc[t + 1].name \in {"h2", "h1"} THEN t + 1
    ELSE NumberedStop(doc, t + 1)

\* desc_parts joined, over the siblings from..to
Description(doc, from, to) ==
    Strip(Join(SelectSeq(Texts(SubSeq(doc, from, to)), NonEmpty)))

\* the github.com links of the siblings from..to; list(set(...)) keeps no order
GithubLinks(doc, from, to) ==
    {h \in Range(FlattenLinks(SubSeq(doc, from, to))) : HrefContains(h, "github.com")}

\* parse_issue_from_h2 for the tag at position t
parse_issue_from_h2(doc, t) ==
    LET text == doc[t].text
        m == HeadingTagEnd(text)
        stop == TaggedStop(doc, t)
    IN  IF m = 0 THEN NoIssue
        ELSE [matched |-> TRUE,
              issue |-> Issue(SubSeq(text, 2, m - 1),
                              AfterFirstBracket(text),
                              SEVERITY_MAP(text[2]),
                              Description(doc, t + 1, stop - 1),
                              GithubLinks(doc, t + 1, stop - 1))]

\* a slip: the id is built from the number written in the heading
numbered_issue_literal(doc, t, counter) ==
    LET txt == doc[t].text
        stop == NumberedStop(doc, t)
    IN  Issue(<<"L", "-">> \o TwoDigits(PyInt(SubSeq(txt, 2, NumberTagEnd(txt) - 1))),
              AfterFirstBracket(txt),
              "Low",
              Description(doc, t + 1, stop - 1),
              Range(doc[t].links) \cup GithubLinks(doc, t + 1, stop - 1))

\* Caso 2 of extract_all_issues for the <h2> at position t
numbered_issue(doc, t, counter) ==
    LET txt == doc[t].text
        stop == NumberedStop(doc, t)
    IN  Issue(<<"L", "-">> \o TwoDigits(counter),
              AfterFirstBracket(txt),
              "Low",
              Description(doc, t + 1, stop - 1),
              Range(doc[t].links) \cup GithubLinks(doc, t + 1, stop - 1))

\* the body of the for loop of Caso 3 for one <li> that has an <a href>
list_issue(li, counter) ==
    LET text == li.atext
        m == LowTagEnd(text)
        issue_id == IF m # 0 THEN SubSeq(text, 2, m - 1)
                    ELSE <<"L", "-">> \o TwoDigits(counter)
        ttl == IF m # 0 THEN AfterFirstBracket(text) ELSE text
        author == IF li.has_em THEN li.em ELSE <<>>
    IN  Issue(issue_id, ttl, "Low", Strip(ttl \o <<".", " ">> \o author), {li.href})

\* the counter after one <li> with an <a>: incremented when the id is synthesized
list_counter(li, counter) == IF LowTagEnd(li.atext) # 0 THEN counter ELSE counter + 1

\* Caso 3: the for loop over the direct <li> of a <ul>, from item k on.  raised
\* is the KeyError of a_tag["href"] on an <a> without a target, which ends the
\* loop with the records appended so far
RECURSIVE list_issues(_, _, _)
list_issues(items, k, counter) ==
    IF k > Len(items) THEN [issues |-> <<>>, items |-> <<>>, counter |-> counter, raised |-> FALSE]
    ELSE IF items[k].anchor = "none" THEN list_issues(items, k + 1, counter)
    ELSE IF items[k].anchor = "nohref"
         THEN [issues |-> <<>>, items |-> <<>>,
               counter |-> list_counter(items[k], counter), raised |-> TRUE]
    ELSE LET rest == list_issues(items, k + 1, list_counter(items[k], counter))
         IN  [issues |-> <<list_issue(items[k], counter)>> \o rest.issues,
              items |-> <<k>> \o rest.items,
              counter |-> rest.counter,
              raised |-> rest.raised]

-----------------------------------------------------------------------------
(* Inputs: the texts, identifiers and link targets the documents are built from *)

T_Report ==
    <<"R", "e", "p", "o", "r", "t">>
T_ScopeHead ==
    <<"S", "c", "o", "p", "e">>
T_Sol ==
    <<"S", "o", "l", "i", "d", "i", "t", "y">>
T_counts ==
    <<"1", "2", " ", "c", "o", "n", "t", "r", "a", "c", "t", "s", " ", "1", ",", "2", "3", "4", " ", "l", "i", "n", "e", "s", " ", "o", "f", " ", "S", "o", "l", "i", "d", "i", "t", "y">>
T_two ==
    <<"~", "5", "0", " ", "s", "m", "a", "r", "t", " ", "c", "o", "n", "t", "r", "a", "c", "t", "s", ",", " ", "7", " ", "c", "o", "n", "t", "r", "a", "c", "t", "s">>
T_mixed ==
    <<"3", " ", "c", "o", "n", "t", "r", "a", "c", "t", "s", " ", "2", "0", " ", "C", "o", "n", "t", "r", "a", "c", "t", "s", " ", "9", " ", "s", "o", "u", "r", "c", "e", " ", "l", "i", "n", "e", "s", " ", "8", "8", " ", "s", "o", "u", "r", "c", "e", " ", "l", "i", "n", "e", "s">>
T_lower ==
    <<"c", "o", "d", "e", " ", "i", "n", " ", "s", "o", "l", "i", "d", "i", "t", "y", ".">>
T_notword ==
    <<"S", "o", "l", "i", "d", "i", "t", "y", "2", " ", "5", " ", "c", "o", "n", "t", "r", "a", "c", "t", "s">>
Id_ScopeCap ==
    <<"S", "c", "o", "p", "e">>
Id_overview ==
    <<"o", "v", "e", "r", "v", "i", "e", "w">>
Id_high ==
    <<"h", "i", "g", "h", "-", "r", "i", "s", "k", "-", "f", "i", "n", "d", "i", "n", "g", "s", "-", "3">>
Id_medium ==
    <<"m", "e", "d", "i", "u", "m", "-", "r", "i", "s", "k", "-", "f", "i", "n", "d", "i", "n", "g", "s">>
Id_low ==
    <<"l", "o", "w", "-", "r", "i", "s", "k", "-", "a", "n", "d", "-", "n", "o", "n", "-", "c", "r", "i", "t", "i", "c", "a", "l", "-", "i", "s", "s", "u", "e", "s">>
Id_noncrit ==
    <<"N", "o", "n", "-", "C", "r", "i", "t", "i", "c", "a", "l", "-", "f", "i", "n", "d", "i", "n", "g", "s">>
Id_unrelated ==
    <<"s", "u", "m", "m", "a", "r", "y", "-", "o", "f", "-", "h", "i", "g", "h", "-", "r", "i", "s", "k", "-", "f", "i", "n", "d", "i", "n", "g", "s">>
Id_disc ==
    <<"d", "i", "s", "c", "l", "o", "s", "u", "r", "e", "s">>
T_H03 ==
    <<"[", "H", "-", "0", "3", "]", " ", "R", "e", "e", "n", "t", "r", "y">>
T_N2 ==
    <<"[", "N", "-", "2", "]", " ", " ", "N", "a", "m", "i", "n", "g">>
T_M01 ==
    <<"[", "M", "-", "0", "1", "]", " ", "R", "o", "u", "n", "d", "i", "n", "g">>
T_G01 ==
    <<"[", "G", "-", "0", "1", "]", "C", "a", "c", "h", "e">>
T_L02 ==
    <<"[", "L", "-", "0", "2", "]", " ", "Z", "e", "r", "o", " ", "c", "h", "e", "c", "k">>
T_N02 ==
    <<"[", "N", "-", "0", "2", "]", " ", "T", "y", "p", "o", "s">>
T_num7 ==
    <<"[", "7", "]", " ", "M", "i", "s", "s", "i", "n", "g", " ", "e", "v", "e", "n", "t">>
T_plain ==
    <<"I", "m", "p", "a", "c", "t">>
T_para ==
    <<"s", "e", "e", " ", "c", "o", "d", "e">>
T_disc ==
    <<"D", "i", "s", "c", "l", "o", "s", "u", "r", "e", "s">>
T_item ==
    <<"U", "n", "c", "h", "e", "c", "k", "e", "d", " ", "c", "a", "l", "l">>
T_itemL05 ==
    <<"[", "L", "-", "0", "5", "]", " ", "O", "l", "d", " ", "m", "a", "r", "k", "e", "r">>
T_author ==
    <<"b", "y", " ", "a", "l", "i", "c", "e">>

RepoHref == <<"github.com", "code-423n4", "2023-01-audit">>
CodeHref == <<"github.com", "code-423n4", "2023-01-audit", "blob", "Vault.sol#L10">>
LibHref == <<"github.com", "other-org", "lib", "Math.sol#L5">>
DocsHref == <<"docs.example.org", "guide">>
ArchiveHref == <<"web.archive.org", "web", "github.com", "code-423n4", "2023-01-audit">>

MaxLen == 3
MaxScopeNodes == 2
MaxSibs == 3
MaxUrls == 2

SeqsUpTo(S, n) == UNION {[1..k -> S] : k \in 0..n}

\* normalize_number: every string of up to MaxLen characters, and the longer
\* strings of the documentation
NumChars == {"0", "1", "7", ",", "~", " ", "c"}

NumInputs ==
    SeqsUpTo(NumChars, MaxLen)
    \cup {<<"1", ",", "2", "3", "4">>, <<"~", "5", "0", "0">>,
          <<"1", "2", " ", "c", "o", "n", "t", "r", "a", "c", "t", "s">>,
          <<"0", "0", "7">>}

\* scope sections
ScopeParas ==
    {P(T_Sol, <<>>),
     P(T_counts, <<LibHref, RepoHref>>),
     P(T_two, <<>>),
     P(T_mixed, <<DocsHref>>),
     P(T_lower, <<>>),
     P(T_notword, <<RepoHref>>)}

ScopeHeads ==
    {<<H1(W_scope, T_ScopeHead)>>,
     <<H1(Id_ScopeCap, T_ScopeHead)>>,
     <<Node("h2", TRUE, W_scope, T_ScopeHead, <<>>, <<>>)>>,
     <<>>}

HighSection == <<H1(Id_high, T_plain), H2(T_H03, <<>>), P(T_para, <<CodeHref>>)>>

ScopeTails ==
    {<<>>,
     <<H1(Id_overview, T_plain), P(T_Sol, <<>>)>>,
     HighSection}

ScopeDocs ==
    {<<H1NoId(T_Report)>> \o h \o s \o t :
        h \in ScopeHeads, s \in SeqsUpTo(ScopeParas, MaxScopeNodes), t \in ScopeTails}

\* severity sections
ItemLink == Item("href", CodeHref, T_item, FALSE, <<>>)
ItemAuthor == Item("href", LibHref, T_itemL05, TRUE, T_author)
ItemPlain == Item("none", <<>>, T_para, FALSE, <<>>)
ItemNoHref == Item("nohref", <<>>, T_item, FALSE, <<>>)

UlFindings == Ul(<<ItemLink, ItemPlain, ItemAuthor, ItemLink>>)
UlBroken == Ul(<<ItemLink, ItemNoHref, ItemLink>>)

ParaLinks == P(T_para, <<CodeHref, DocsHref, CodeHref, LibHref, ArchiveHref>>)
ParaEmpty == P(<<>>, <<>>)

HighSiblings == {H2(T_H03, <<>>), H2(T_N2, <<>>), H2(T_plain, <<>>), ParaLinks, ParaEmpty,
                 UlFindings}
MediumSiblings == {H2(T_M01, <<>>), H2(T_G01, <<>>), H2(T_num7, <<>>), ParaLinks, ParaEmpty,
                   H2(T_L02, <<>>)}
LowSiblings == {H2(T_L02, <<>>), H2(T_G01, <<>>), H2(T_num7, <<DocsHref>>), H2(T_plain, <<>>),
                ParaLinks, ParaEmpty, UlFindings, UlBroken}
FewSiblings == {H2(T_N02, <<>>), H2(T_num7, <<>>), UlFindings}

GoodScope == <<H1NoId(T_Report), H1(W_scope, T_ScopeHead), P(T_Sol, <<>>)>>

IssueTails == {<<>>, <<H1(Id_disc, T_disc), P(T_disc, <<LibHref>>)>>}

SectionDocs(id, siblings) ==
    {GoodScope \o <<H1(id, T_plain)>> \o s \o t :
        s \in SeqsUpTo(siblings, MaxSibs), t \in IssueTails}

\* two findings with up to MaxSibs unrecognized siblings between them
Fillers == {H2(T_plain, <<>>), ParaLinks, ParaEmpty}

SandwichDocs ==
    {GoodScope \o <<H1(id, T_plain), H2(first, <<>>)>> \o s \o <<H2(T_N2, <<>>)>> :
        id \in {Id_high, Id_low}, first \in {T_H03, T_num7}, s \in SeqsUpTo(Fillers, MaxSibs)}

IssueDocs ==
    SandwichDocs
    \cup SectionDocs(Id_high, HighSiblings)
    \cup SectionDocs(Id_medium, MediumSiblings)
    \cup SectionDocs(Id_low, LowSiblings)
    \cup SectionDocs(Id_noncrit, FewSiblings)
    \cup SectionDocs(Id_unrelated, FewSiblings)

\* the batch
D_noscope == <<H1NoId(T_Report)>> \o HighSection
D_nomarker ==
    <<H1NoId(T_Report), H1(W_scope, T_ScopeHead), P(T_two, <<RepoHref>>),
      H1(Id_low, T_plain), H2(T_num7, <<>>)>>
D_empty == GoodScope
D_full ==
    <<H1(Id_overview, T_Report), H1(W_scope, T_ScopeHead), P(T_counts, <<RepoHref>>)>>
    \o HighSection
    \o <<H1(Id_medium, T_plain), H2(T_M01, <<>>),
         H1(Id_low, T_plain), H2(T_num7, <<>>), ParaLinks, UlFindings, H2(T_L02, <<>>),
         H1(Id_noncrit, T_plain), H2(T_num7, <<>>)>>
D_raise == GoodScope \o <<H1(Id_low, T_plain), H2(T_num7, <<>>), UlBroken>>

BatchDocs == {D_noscope, D_nomarker, D_empty, D_full, D_raise}

\* a URL of the list with what the collaborators answer for it: the fetch status,
\* the document, and whether the output file can be opened for writing
Url(slug, status, doc) == [slug |-> slug, status |-> status, doc |-> doc, disk |-> TRUE]

UrlDiskFull(slug, doc) == [slug |-> slug, status |-> 200, doc |-> doc, disk |-> FALSE]

BatchUrls ==
    {Url(s, 200, d) : s \in {"a", "b"}, d \in BatchDocs}
    \cup {Url("a", 404, D_full), UrlDiskFull("b", D_empty)}

UrlLists ==
    {<<Url("a", 200, d)>> : d \in ScopeDocs \cup IssueDocs}
    \cup SeqsUpTo(BatchUrls, MaxUrls)

-----------------------------------------------------------------------------
(* 4. The runner: process_reports_from_file, parse_code4rena_report and the    *)
(* loops of extract_all_issues, one action per step                            *)

NoData == [report_title |-> <<>>, scope |-> NoScope, issues |-> <<>>]
ReturnedNone == [kind |-> "none", data |-> NoData]
ReturnedRaise == [kind |-> "raised", data |-> NoData]

\* a slip: the record is tested by its values, so a scope of defaults is falsy
is_falsy_by_value(sc) ==
    ~sc.ok \/ (sc.repository = NoRepository /\ sc.contracts = 0 /\ sc.lines_solidity = 0)

\* a slip: the result of parse_scope_section is not tested
is_falsy_unchecked(sc) == FALSE

\* if not scope  /  if not data: None is falsy, a dict with its three keys is not
is_falsy(sc) == ~sc.ok

\* soup.find("h1"): the text of the first <h1>, empty when there is none
report_title(doc) ==
    LET hits == {i \in DOMAIN doc : doc[i].name = "h1"}
    IN  IF hits = {} THEN <<>> ELSE doc[CHOOSE i \in hits : \A j \in hits : i <= j].text

\* the test that selects the <h1 id=...> blocks of one loop of extract_all_issues
SectionMatches(ph, node) ==
    /\ node.name = "h1"
    /\ node.has_id
    /\ CASE ph = "high" -> StartsWith(node.id, W_high)
         [] ph = "medium" -> StartsWith(node.id, W_medium)
         [] OTHER -> \/ Contains(LowerStr(node.id), W_low)
                     \/ Contains(LowerStr(node.id), W_noncrit)

\* the blocks of the current loop that come after the one just walked
BlocksAhead == {b \in DOMAIN soup : b > block /\ SectionMatches(phase, soup[b])}

\* a slip: the counter is set once and never reset
counter_carried(counter) == counter

\* issue_counter = 1 at the head of a Low/Non-Critical section
counter_start(counter) == 1

write_file(files, slug, data) ==
    [s \in DOMAIN files \cup {slug} |-> IF s = slug THEN data ELSE files[s]]

\* a slip: no try/except around the loop body, so an exception ends the batch
Skip_uncaught(kind, msg) ==
    /\ returned' = Append(returned, kind)
    /\ log' = Append(log, [url |-> idx, msg |-> msg])
    /\ idx' = IF msg = "error" THEN Len(urls) + 1 ELSE idx + 1
    /\ pc' = "loop"
    /\ UNCHANGED written

\* the ways one URL ends without a file: continue, or the except branch
Skip(kind, msg) ==
    /\ returned' = Append(returned, kind)
    /\ log' = Append(log, [url |-> idx, msg |-> msg])
    /\ idx' = idx + 1
    /\ pc' = "loop"
    /\ UNCHANGED written

FetchFail ==
    /\ pc = "loop"
    /\ idx <= Len(urls)
    /\ urls[idx].status # 200
    /\ Skip(ReturnedNone, "http")
    /\ UNCHANGED <<num_in, num_out, urls, soup, scope, title, all_issues, phase, block, sib,
                   issue_counter, origin>>

FetchOk ==
    /\ pc = "loop"
    /\ idx <= Len(urls)
    /\ urls[idx].status = 200
    /\ soup' = urls[idx].doc
    /\ pc' = "parse"
    /\ UNCHANGED <<num_in, num_out, urls, idx, scope, title, all_issues, phase, block, sib,
                   issue_counter, origin, returned, written, log>>

ScopeReject ==
    /\ pc = "parse"
    /\ is_falsy(parse_scope_section(soup))
    /\ scope' = parse_scope_section(soup)
    /\ Skip(ReturnedNone, "skip")
    /\ UNCHANGED <<num_in, num_out, urls, soup, title, all_issues, phase, block, sib,
                   issue_counter, origin>>

ScopeAccept ==
    /\ pc = "parse"
    /\ ~is_falsy(parse_scope_section(soup))
    /\ scope' = parse_scope_section(soup)
    /\ title' = report_title(soup)
    /\ all_issues' = <<>>
    /\ origin' = <<>>
    /\ phase' = "high"
    /\ block' = 0
    /\ pc' = "find"
    /\ UNCHANGED <<num_in, num_out, urls, idx, soup, sib, issue_counter, returned, written,
                   log>>

EnterSection ==
    /\ pc = "find"
    /\ BlocksAhead # {}
    /\ LET b == CHOOSE x \in BlocksAhead : \A y \in BlocksAhead : x <= y
       IN  /\ block' = b
           /\ sib' = b + 1
    /\ issue_counter' = IF phase = "low" THEN counter_start(issue_counter) ELSE issue_counter
    /\ pc' = "walk"
    /\ UNCHANGED <<num_in, num_out, urls, idx, soup, scope, title, all_issues, phase, origin,
                   returned, written, log>>

NextPhase ==
    /\ pc = "find"
    /\ BlocksAhead = {}
    /\ phase \in {"high", "medium"}
    /\ phase' = IF phase = "high" THEN "medium" ELSE "low"
    /\ block' = 0
    /\ UNCHANGED <<num_in, num_out, urls, idx, pc, soup, scope, title, all_issues, sib,
                   issue_counter, origin, returned, written, log>>

Return ==
    /\ pc = "find"
    /\ BlocksAhead = {}
    /\ phase = "low"
    /\ pc' = "save"
    /\ UNCHANGED <<num_in, num_out, urls, idx, soup, scope, title, all_issues, phase, block,
                   sib, issue_counter, origin, returned, written, log>>

Save ==
    /\ pc = "save"
    /\ urls[idx].disk
    /\ LET data == [report_title |-> title, scope |-> scope, issues |-> all_issues]
       IN  /\ returned' = Append(returned, [kind |-> "record", data |-> data])
           /\ written' = write_file(written, urls[idx].slug, data)
    /\ log' = Append(log, [url |-> idx, msg |-> "ok"])
    /\ idx' = idx + 1
    /\ pc' = "loop"
    /\ UNCHANGED <<num_in, num_out, urls, soup, scope, title, all_issues, phase, block, sib,
                   issue_counter, origin>>

\* open(out_file, "w") raises: the except branch logs it, no file is written
SaveRaises ==
    /\ pc = "save"
    /\ ~urls[idx].disk
    /\ Skip([kind |-> "record",
             data |-> [report_title |-> title, scope |-> scope, issues |-> all_issues]],
            "error")
    /\ UNCHANGED <<num_in, num_out, urls, soup, scope, title, all_issues, phase, block, sib,
                   issue_counter, origin>>

AtSibling == pc = "walk" /\ sib <= Len(soup) /\ soup[sib].name # "h1"

EndSection ==
    /\ pc = "walk"
    /\ ~AtSibling
    /\ pc' = "find"
    /\ UNCHANGED <<num_in, num_out, urls, idx, soup, scope, title, all_issues, phase, block,
                   sib, issue_counter, origin, returned, written, log>>

Origin(format, item) == [section |-> block, node |-> sib, item |-> item, format |-> format]

Advance ==
    /\ sib' = sib + 1
    /\ UNCHANGED <<num_in, num_out, urls, idx, pc, soup, scope, title, phase, block, returned,
                   written, log>>

HMFinding ==
    /\ AtSibling
    /\ phase \in {"high", "medium"}
    /\ soup[sib].name = "h2"
    /\ parse_issue_from_h2(soup, sib).matched
    /\ all_issues' = Append(all_issues, parse_issue_from_h2(soup, sib).issue)
    /\ origin' = Append(origin, Origin("tagged", 0))
    /\ Advance
    /\ UNCHANGED issue_counter

HMSkip ==
    /\ AtSibling
    /\ phase \in {"high", "medium"}
    /\ ~(soup[sib].name = "h2" /\ parse_issue_from_h2(soup, sib).matched)
    /\ Advance
    /\ UNCHANGED <<all_issues, origin, issue_counter>>

\* a slip: the severity of the letter table is kept
keep_severity(issue) == issue

\* issue["severity"] = "Low"
force_low(issue) == [issue EXCEPT !.severity = "Low"]

LowTagged ==
    /\ AtSibling
    /\ phase = "low"
    /\ soup[sib].name = "h2"
    /\ parse_issue_from_h2(soup, sib).matched
    /\ all_issues' = Append(all_issues, force_low(parse_issue_from_h2(soup, sib).issue))
    /\ origin' = Append(origin, Origin("tagged", 0))
    /\ issue_counter' = issue_counter + 1
    /\ Advance

LowNumbered ==
    /\ AtSibling
    /\ phase = "low"
    /\ soup[sib].name = "h2"
    /\ ~parse_issue_from_h2(soup, sib).matched
    /\ NumberTagEnd(soup[sib].text) # 0
    /\ all_issues' = Append(all_issues, numbered_issue(soup, sib, issue_counter))
    /\ origin' = Append(origin, Origin("numbered", 0))
    /\ issue_counter' = issue_counter + 1
    /\ Advance

LowList ==
    /\ AtSibling
    /\ phase = "low"
    /\ soup[sib].name = "ul"
    /\ LET r == list_issues(soup[sib].items, 1, issue_counter)
       IN  /\ ~r.raised
           /\ all_issues' = all_issues \o r.issues
           /\ origin' = origin \o [i \in DOMAIN r.items |-> Origin("list", r.items[i])]
           /\ issue_counter' = r.counter
    /\ Advance

LowListRaises ==
    /\ AtSibling
    /\ phase = "low"
    /\ soup[sib].name = "ul"
    /\ LET r == list_issues(soup[sib].items, 1, issue_counter)
       IN  /\ r.raised
           /\ all_issues' = all_issues \o r.issues
           /\ origin' = origin \o [i \in DOMAIN r.items |-> Origin("list", r.items[i])]
           /\ issue_counter' = r.counter
    /\ Skip(ReturnedRaise, "error")
    /\ UNCHANGED <<num_in, num_out, urls, soup, scope, title, phase, block, sib>>

LowSkip ==
    /\ AtSibling
    /\ phase = "low"
    /\ soup[sib].name # "ul"
    /\ ~(soup[sib].name = "h2"
         /\ (parse_issue_from_h2(soup, sib).matched \/ NumberTagEnd(soup[sib].text) # 0))
    /\ Advance
    /\ UNCHANGED <<all_issues, origin, issue_counter>>

Init ==
    /\ num_in = <<>>
    /\ num_out = NotCalled
    /\ urls \in UrlLists
    /\ idx = 1
    /\ pc = "loop"
    /\ soup = <<>>
    /\ scope = NoScope
    /\ title = <<>>
    /\ all_issues = <<>>
    /\ phase = "high"
    /\ block = 0
    /\ sib = 0
    /\ issue_counter = 0
    /\ origin = <<>>
    /\ returned = <<>>
    /\ written = <<>>
    /\ log = <<>>

Next ==
    \/ FetchFail
    \/ FetchOk
    \/ ScopeReject
    \/ ScopeAccept
    \/ EnterSection
    \/ NextPhase
    \/ Return
    \/ Save
    \/ SaveRaises
    \/ EndSection
    \/ HMFinding
    \/ HMSkip
    \/ LowTagged
    \/ LowNumbered
    \/ LowList
    \/ LowListRaises
    \/ LowSkip

Spec == Init /\ [][Next]_vars

\* the batch alone; the loop is sequential code that runs on until the list ends
InitBatch ==
    /\ Init
    /\ urls \in SeqsUpTo(BatchUrls, MaxUrls)

SpecBatch == InitBatch /\ [][Next]_vars /\ WF_vars(Next)

-----------------------------------------------------------------------------
(* The normalizer on its own: Init draws the argument, the action is the call *)

InitNum ==
    /\ num_in \in NumInputs
    /\ num_out = NotCalled
    /\ urls = <<>>
    /\ idx = 1
    /\ pc = "loop"
    /\ soup = <<>>
    /\ scope = NoScope
    /\ title = <<>>
    /\ all_issues = <<>>
    /\ phase = "high"
    /\ block = 0
    /\ sib = 0
    /\ issue_counter = 0
    /\ origin = <<>>
    /\ returned = <<>>
    /\ written = <<>>
    /\ log = <<>>

Normalize ==
    /\ num_out = NotCalled
    /\ num_out' = [done |-> TRUE, value |-> normalize_number(num_in)]
    /\ UNCHANGED <<num_in, docvars>>

NextNum == Normalize

SpecNum == InitNum /\ [][NextNum]_vars

-----------------------------------------------------------------------------
(* Properties of normalize_number *)

RECURSIVE Pow10(_)
Pow10(n) == IF n = 0 THEN 1 ELSE 10 * Pow10(n - 1)

DigitPositions(s) == {i \in DOMAIN s : IsDigit(s[i])}

RECURSIVE SumOver(_, _)
SumOver(S, f) ==
    IF S = {} THEN 0
    ELSE LET x == CHOOSE y \in S : TRUE IN f[x] + SumOver(S \ {x}, f)

\* the number written by the decimal digits of s, read in their order: each
\* digit weighs ten to the number of digits that follow it
DigitsNumber(s) ==
    SumOver(DigitPositions(s),
            [i \in DigitPositions(s) |->
                DigitValue(s[i]) * Pow10(Cardinality({j \in DigitPositions(s) : j > i}))])

\* C7: normalize_number returns, for every string, the base-10 integer formed by
\* the string's digits in their order with every other character removed, 0 when
\* the string is empty or holds no digit, and never a negative number
C7_NormalizeDigits ==
    num_out.done =>
        /\ num_out.value = DigitsNumber(num_in)
        /\ num_out.value >= 0
        /\ (DigitPositions(num_in) = {} => num_out.value = 0)

C7_Witness ==
    /\ num_out.done
    /\ num_in = <<"1", "2", " ", "c", "o", "n", "t", "r", "a", "c", "t", "s">>
    /\ num_out.value = 12

-----------------------------------------------------------------------------
(* Properties of the scope interpreter and of rejection *)

Last(q) == q[Len(q)]

\* the document of the current run has been through parse_scope_section
ScopeParsed == soup # <<>> /\ pc # "parse"

\* a top-level heading with identifier "scope"
ScopeHeadings(doc) ==
    {i \in DOMAIN doc : doc[i].name = "h1" /\ doc[i].has_id /\ doc[i].id = W_scope}

HasScopeHeading(doc) == ScopeHeadings(doc) # {}

\* the siblings between the first "scope" heading and the next top-level heading
ScopeSiblings(doc) ==
    LET h == CHOOSE i \in ScopeHeadings(doc) : \A j \in ScopeHeadings(doc) : i <= j
    IN  {j \in DOMAIN doc : j > h /\ \A k \in (h + 1)..j : doc[k].name # "h1"}

\* "solidity" in any letter case, not touching a letter, digit or underscore
WholeWordMarker(text) ==
    \E i \in DOMAIN text :
        /\ i + 7 <= Len(text)
        /\ LowerStr(SubSeq(text, i, i + 7)) = <<"s", "o", "l", "i", "d", "i", "t", "y">>
        /\ (i > 1 => ~IsWordChar(text[i - 1]))
        /\ (i + 8 <= Len(text) => ~IsWordChar(text[i + 8]))

MarkerInScope(doc) ==
    HasScopeHeading(doc) /\ \E j \in ScopeSiblings(doc) : WholeWordMarker(doc[j].text)

MarkerOutsideScope(doc) ==
    \E j \in DOMAIN doc : j \notin ScopeSiblings(doc) /\ WholeWordMarker(doc[j].text)

Fetched(i) == i \in DOMAIN returned /\ urls[i].status = 200

\* C1: a document with no top-level heading of identifier "scope" is rejected:
\* parse_scope_section gives None, parse_code4rena_report gives no record,
\* whatever else the document holds
C1_NoScopeHeadingRejected ==
    /\ (ScopeParsed /\ ~HasScopeHeading(soup)) => ~scope.ok
    /\ \A i \in DOMAIN returned :
          (Fetched(i) /\ ~HasScopeHeading(urls[i].doc)) => returned[i].kind = "none"

\* a rejected document whose "scope" identifier sits on a sub-heading, followed by
\* text that names the ecosystem
C1_Witness ==
    /\ Fetched(1)
    /\ ~HasScopeHeading(urls[1].doc)
    /\ \E j \in DOMAIN urls[1].doc :
          /\ urls[1].doc[j].name = "h2"
          /\ urls[1].doc[j].has_id
          /\ urls[1].doc[j].id = W_scope
    /\ \E j \in DOMAIN urls[1].doc : WholeWordMarker(urls[1].doc[j].text)
    /\ returned[1].kind = "none"
    /\ ~scope.ok

\* C2: a document whose scope section text lacks the whole-word, case-insensitive
\* marker is rejected, also when the section holds count phrases or a repository
\* link and when the marker stands outside the section
C2_NoMarkerRejected ==
    /\ (ScopeParsed /\ HasScopeHeading(soup) /\ ~MarkerInScope(soup)) => ~scope.ok
    /\ \A i \in DOMAIN returned :
          (Fetched(i) /\ HasScopeHeading(urls[i].doc) /\ ~MarkerInScope(urls[i].doc))
              => returned[i].kind = "none"

C2_Witness ==
    /\ Fetched(1)
    /\ HasScopeHeading(urls[1].doc)
    /\ ~MarkerInScope(urls[1].doc)
    /\ MarkerOutsideScope(urls[1].doc)
    /\ \E j \in ScopeSiblings(urls[1].doc) :
          /\ \E i \in DOMAIN urls[1].doc[j].text :
                NumberThenPhraseAt(urls[1].doc[j].text, i, ContractPhrases)
          /\ RepoHref \in Range(urls[1].doc[j].links)
    /\ returned[1].kind = "none"

\* the start positions at which a number followed by one of the phrases stands
Occurrences(text, phrases) ==
    {i \in DOMAIN text :
        /\ NumberThenPhraseAt(text, i, phrases)
        /\ (i > 1 => ~IsNumChar(text[i - 1]))}

NumeralAt(text, i) ==
    SubSeq(text, i, CHOOSE e \in i..Len(text) :
                        /\ \A k \in i..e : IsNumChar(text[k])
                        /\ (e + 1 <= Len(text) => ~IsNumChar(text[e + 1])))

FirstOccurrenceValue(text, phrases) ==
    LET occ == Occurrences(text, phrases)
    IN  IF occ = {} THEN 0
        ELSE DigitsNumber(NumeralAt(text, CHOOSE i \in occ : \A j \in occ : i <= j))

OccurrenceValues(text, phrases) ==
    {DigitsNumber(NumeralAt(text, i)) : i \in Occurrences(text, phrases)}

\* the flattened text of the scope section: the texts of its siblings, in order
ScopeText(doc) ==
    LET h == CHOOSE i \in ScopeHeadings(doc) : \A j \in ScopeHeadings(doc) : i <= j
    IN  SectionText(SubSeq(doc, h + 1, h + Cardinality(ScopeSiblings(doc))))

\* C6: contracts (lines_solidity) is the normalized number of the first phrase,
\* in document order, that matches the contract-count (line-count) pattern, and 0
\* when none matches
C6_FirstMatchWins ==
    (ScopeParsed /\ scope.ok) =>
        /\ scope.contracts = FirstOccurrenceValue(ScopeText(soup), ContractPhrases)
        /\ scope.lines_solidity = FirstOccurrenceValue(ScopeText(soup), LinePhrases)

\* the first count is neither the last nor the largest of the section
C6_Witness ==
    /\ ScopeParsed
    /\ scope.ok
    /\ scope.contracts = 3
    /\ 20 \in OccurrenceValues(ScopeText(soup), ContractPhrases)
    /\ scope.lines_solidity = 9
    /\ 88 \in OccurrenceValues(ScopeText(soup), LinePhrases)

\* an identifier that selects a severity section
SeverityId(id) ==
    \/ (Len(id) >= Len(W_high) /\ SubSeq(id, 1, Len(W_high)) = W_high)
    \/ (Len(id) >= Len(W_medium) /\ SubSeq(id, 1, Len(W_medium)) = W_medium)
    \/ Contains(LowerStr(id), W_low)
    \/ Contains(LowerStr(id), W_noncrit)

NoSeverityHeading(doc) ==
    \A j \in DOMAIN doc : ~(doc[j].name = "h1" /\ doc[j].has_id /\ SeverityId(doc[j].id))

\* C8: a document that passes the scope check and has no severity heading yields
\* a record with its ScopeRecord and no issue, also when the ScopeRecord holds
\* only defaults
C8_NoSeveritySectionsStillReported ==
    \A i \in DOMAIN returned :
        (Fetched(i) /\ MarkerInScope(urls[i].doc) /\ NoSeverityHeading(urls[i].doc))
            => /\ returned[i].kind = "record"
               /\ returned[i].data.scope.ok
               /\ returned[i].data.scope = parse_scope_section(urls[i].doc)
               /\ returned[i].data.issues = <<>>

C8_Witness ==
    /\ Fetched(1)
    /\ MarkerInScope(urls[1].doc)
    /\ NoSeverityHeading(urls[1].doc)
    /\ returned[1].kind = "record"
    /\ returned[1].data.scope =
          [ok |-> TRUE, repository |-> NoRepository, contracts |-> 0, lines_solidity |-> 0]
    /\ returned[1].data.issues = <<>>
    /\ urls[1].slug \in DOMAIN written

Rejected(doc) == ~HasScopeHeading(doc) \/ ~MarkerInScope(doc)

HasFinding(doc) ==
    \E j \in DOMAIN doc : doc[j].name = "h2" /\ HeadingTagEnd(doc[j].text) # 0

\* C10: a rejected document yields no record at all, and every output file holds
\* the record of an accepted document of that slug, so none is written for a
\* rejected one
C10_NoPartialRecord ==
    /\ \A i \in DOMAIN returned :
          (Fetched(i) /\ Rejected(urls[i].doc))
              => returned[i].kind = "none" /\ returned[i].data = NoData
    /\ \A f \in DOMAIN written :
          \E i \in DOMAIN returned :
              /\ urls[i].slug = f
              /\ Fetched(i)
              /\ ~Rejected(urls[i].doc)
              /\ returned[i].kind = "record"
              /\ written[f] = returned[i].data

\* a rejected document with findings in a severity section, after an accepted one
C10_Witness ==
    /\ Len(returned) = 2
    /\ Fetched(2)
    /\ Rejected(urls[2].doc)
    /\ HasFinding(urls[2].doc)
    /\ returned[2].kind = "none"
    /\ returned[1].kind = "record"
    /\ DOMAIN written = {urls[1].slug}
    /\ urls[2].slug \notin DOMAIN written

-----------------------------------------------------------------------------
(* Properties of the finding formats *)

Walking == pc \in {"walk", "find", "save"} /\ block > 0

\* the siblings of the section being walked that the walk has passed
Passed ==
    {t \in DOMAIN soup : block < t /\ t < sib /\ \A k \in (block + 1)..t : soup[k].name # "h1"}

\* "[X-nn]..." with X one of H, M, L, N, G: the position of the closing bracket
TagClose(text) ==
    {e \in 5..Len(text) :
        /\ text[1] = "[" /\ text[2] \in {"H", "M", "L", "N", "G"} /\ text[3] = "-"
        /\ text[e] = "]"
        /\ \A j \in 4..(e - 1) : IsDigit(text[j])}

IsTaggedHeading(n) == n.name = "h2" /\ TagClose(n.text) # {}

\* "[nn]..." with digits only
IsNumberedHeading(n) ==
    /\ n.name = "h2"
    /\ \E e \in 3..Len(n.text) :
          n.text[1] = "[" /\ n.text[e] = "]" /\ \A j \in 2..(e - 1) : IsDigit(n.text[j])

LowSection(b) ==
    Contains(LowerStr(soup[b].id), W_low) \/ Contains(LowerStr(soup[b].id), W_noncrit)

\* a sibling that no format of the section recognizes
NonFinding(b, n) ==
    /\ ~IsTaggedHeading(n)
    /\ LowSection(b) =>
          /\ ~IsNumberedHeading(n)
          /\ ~(n.name = "ul" /\ \E k \in DOMAIN n.items : n.items[k].anchor # "none")

RecordsOf(b, t) == {n \in DOMAIN origin : origin[n].section = b /\ origin[n].node = t}

LetterTable(c) ==
    [H |-> "High", M |-> "Medium", L |-> "Low", N |-> "Non-Critical", G |-> "Gas"][c]

TextAfter(text, e) == Strip(IF e = Len(text) THEN <<>> ELSE SubSeq(text, e + 1, Len(text)))

\* the tagged headings u after t, in the section, with only unrecognized siblings between
NextTagged(t) ==
    {u \in DOMAIN soup :
        /\ u > t
        /\ IsTaggedHeading(soup[u])
        /\ \A k \in (t + 1)..(u - 1) : soup[k].name # "h1" /\ NonFinding(block, soup[k])}

\* C3: a heading "[X-nn] Title" of a severity section yields exactly one record,
\* with issue_id X-nn, the title after the bracket and, in a High/Medium section,
\* the severity of the letter table; when unrecognized siblings and then another
\* tagged heading follow, the description is the non-empty texts of exactly those
\* siblings joined by single spaces, and the second heading gets its own record
C3_TaggedHeadingRecord ==
    Walking =>
        \A t \in Passed :
            IsTaggedHeading(soup[t]) =>
                /\ Cardinality(RecordsOf(block, t)) = 1
                /\ LET r == all_issues[CHOOSE n \in RecordsOf(block, t) : TRUE]
                       e == CHOOSE x \in TagClose(soup[t].text) : TRUE
                   IN  /\ r.issue_id = SubSeq(soup[t].text, 2, e - 1)
                       /\ r.title = TextAfter(soup[t].text, e)
                       /\ ~LowSection(block) => r.severity = LetterTable(soup[t].text[2])
                       /\ \A u \in NextTagged(t) :
                             /\ r.description =
                                   Join(SelectSeq([k \in 1..(u - t - 1) |-> soup[t + k].text],
                                                  NonEmpty))
                             /\ u \in Passed =>
                                   /\ Cardinality(RecordsOf(block, u)) = 1
                                   /\ \A n \in RecordsOf(block, t), m \in RecordsOf(block, u) :
                                         n < m

\* "[H-03] ..." in a High section, a sub-heading and a paragraph, then "[N-2] ..."
C3_Witness ==
    /\ Walking
    /\ phase = "high"
    /\ \E t \in Passed :
          /\ (t + 3) \in NextTagged(t) \cap Passed
          /\ soup[t].text = T_H03
          /\ soup[t + 1].name = "h2"
          /\ soup[t + 2].name = "p"
          /\ soup[t + 3].text = T_N2
          /\ \E n \in RecordsOf(block, t) :
                /\ all_issues[n].issue_id = <<"H", "-", "0", "3">>
                /\ all_issues[n].severity = "High"
                /\ all_issues[n].description = T_plain \o <<" ">> \o T_para
                /\ all_issues[n + 1].severity = "Non-Critical"

\* the walk has just handled the sibling before sib, in a Low/Non-Critical section
JustHandled == pc = "walk" /\ phase = "low" /\ (sib - 1) \in Passed

SectionRecords(b) == {n \in DOMAIN origin : origin[n].section = b}

\* "L-" and the decimal digits of n, at least two of them
IsLowId(id, n) ==
    /\ Len(id) >= 4
    /\ SubSeq(id, 1, 2) = <<"L", "-">>
    /\ \A j \in 3..Len(id) : IsDigit(id[j])
    /\ DigitsNumber(id) = n
    /\ (Len(id) > 4 => id[3] # "0")

FirstBracket(text) == CHOOSE e \in DOMAIN text : text[e] = "]" /\ \A j \in 1..(e - 1) : text[j] # "]"

\* C4: in a Low/Non-Critical section a heading "[n] Title" yields a record of
\* severity Low whose title is the text after the first "]" and whose issue_id is
\* "L-" and the running counter on two digits, whatever n is: "L-01" for the
\* first finding of the section
C4_NumberedHeadingRecord ==
    (JustHandled /\ IsNumberedHeading(soup[sib - 1])) =>
        /\ RecordsOf(block, sib - 1) = {Len(origin)}
        /\ Len(all_issues) = Len(origin)
        /\ Last(origin).format = "numbered"
        /\ Last(all_issues).severity = "Low"
        /\ Last(all_issues).title = TextAfter(soup[sib - 1].text, FirstBracket(soup[sib - 1].text))
        /\ IsLowId(Last(all_issues).issue_id, issue_counter - 1)
        /\ SectionRecords(block) = {Len(origin)} =>
              Last(all_issues).issue_id = <<"L", "-", "0", "1">>

\* two headings "[7] Missing event" in a row: L-01, then L-02
C4_Witness ==
    /\ JustHandled
    /\ (sib - 2) \in Passed
    /\ soup[sib - 1].text = T_num7
    /\ soup[sib - 2].text = T_num7
    /\ SectionRecords(block) = {1, 2}
    /\ all_issues[1].issue_id = <<"L", "-", "0", "1">>
    /\ all_issues[2].issue_id = <<"L", "-", "0", "2">>
    /\ all_issues[2].title = <<"M", "i", "s", "s", "i", "n", "g", " ", "e", "v", "e", "n", "t">>
    /\ all_issues[2].severity = "Low"

\* the <ul> of a Low/Non-Critical section whose for loop has run, to its end or
\* to the exception that ended it
HandledLists ==
    {u \in DOMAIN soup :
        /\ soup[u].name = "ul"
        /\ \/ JustHandled /\ u = sib - 1
           \/ /\ pc = "loop" /\ phase = "low" /\ u = sib
              /\ returned # <<>> /\ Last(returned).kind = "raised"}

ItemRecords(u, k) ==
    {n \in DOMAIN origin : origin[n].section = block /\ origin[n].node = u /\ origin[n].item = k}

\* C5: every direct item of the list that holds a hyperlink yields exactly one
\* record, whose links are that one link and whose description is "<title>."
\* without an emphasis child and "<title>. <author>" with one; an item without
\* a hyperlink yields none
C5_ListItemRecords ==
    \A u \in HandledLists :
        \A k \in DOMAIN soup[u].items :
            LET li == soup[u].items[k]
            IN  IF li.anchor = "href"
                THEN /\ Cardinality(ItemRecords(u, k)) = 1
                     /\ \A n \in ItemRecords(u, k) :
                           /\ all_issues[n].vulnerable_code_links = {li.href}
                           /\ all_issues[n].description =
                                 IF li.has_em
                                 THEN all_issues[n].title \o <<".", " ">> \o li.em
                                 ELSE all_issues[n].title \o <<".">>
                ELSE ItemRecords(u, k) = {}

\* C9: two runs of the extractor on the same document text give the same outcome,
\* field for field (the links compared as sets): nothing of a run, the issue
\* counter included, reaches the next
C9_Deterministic ==
    \A i, j \in DOMAIN returned :
        (Fetched(i) /\ Fetched(j) /\ urls[i].doc = urls[j].doc) => returned[i] = returned[j]

\* the same document, with findings of the three formats, extracted twice
C9_Witness ==
    /\ Len(returned) = 2
    /\ Fetched(1)
    /\ Fetched(2)
    /\ urls[1].doc = urls[2].doc
    /\ returned[1].kind = "record"
    /\ returned[2] = returned[1]
    /\ \E n \in DOMAIN returned[2].data.issues :
          returned[2].data.issues[n].issue_id = <<"L", "-", "0", "3">>

-----------------------------------------------------------------------------
(* Properties of the batch loop *)

\* one outcome and one log line per URL already left behind, in list order, and
\* only a fetched document is ever in the extractor
BatchInOrder ==
    /\ Len(returned) = idx - 1
    /\ Len(log) = idx - 1
    /\ idx <= Len(urls) + 1
    /\ \A k \in DOMAIN log : log[k].url = k
    /\ pc # "loop" => (idx <= Len(urls) /\ urls[idx].status = 200 /\ soup = urls[idx].doc)
    /\ \A k \in DOMAIN returned :
          urls[k].status # 200 => (returned[k].kind = "none" /\ log[k].msg = "http")

\* C11: every URL of the list is attempted, exactly once and in list order,
\* whatever the URLs before it did: a failed fetch, a rejected document and an
\* exception while parsing or saving are logged and the loop goes on; a failed
\* fetch never reaches the extraction
C11_BatchNeverHalts ==
    /\ []BatchInOrder
    /\ [][idx' = idx \/ (idx' = idx + 1 /\ Len(returned') = idx)]_vars
    /\ <>(idx = Len(urls) + 1 /\ Len(returned) = Len(urls))

\* a parse exception, then a document that is extracted and saved
C11_Witness ==
    /\ Len(urls) = 2
    /\ Len(returned) = 2
    /\ returned[1].kind = "raised"
    /\ log[1].msg = "error"
    /\ returned[2].kind = "record"
    /\ log[2].msg = "ok"
    /\ urls[2].slug \in DOMAIN written

-----------------------------------------------------------------------------
(* Properties of the Low/Non-Critical sections *)

\* the document is being extracted: all_issues and origin belong to soup
Extracting == pc \in {"walk", "find", "save"}

\* the records that came from the section under the <h1> at position b
LowRecords == {n \in DOMAIN origin : LowSection(origin[n].section)}

\* C12: every record produced while walking a section whose <h1> id contains
\* "low-risk" or "non-critical" (in any case) has severity "Low", whichever of
\* the three formats it came from and whatever letter its heading tag carries
C12_LowSectionSeverity ==
    Extracting => \A n \in LowRecords : all_issues[n].severity = "Low"

\* "[G-01]..." or "[N-02]..." under such a heading, next to a bracket-numbered
\* heading and a list item
C12_Witness ==
    /\ Extracting
    /\ \E n \in LowRecords :
          /\ origin[n].format = "tagged"
          /\ soup[origin[n].node].text[2] \in {"N", "G"}
          /\ all_issues[n].severity = "Low"
    /\ \E n \in LowRecords : origin[n].format = "numbered"
    /\ \E n \in LowRecords : origin[n].format = "list"

-----------------------------------------------------------------------------
(* Properties of the aggregation *)

\* the records that came from a sub-heading (format 1 or 2)
HeadingRecords == {n \in DOMAIN origin : origin[n].format \in {"tagged", "numbered"}}

\* the position of the first <h1> after t, Len(soup) + 1 when there is none
SectionEnd(t) ==
    CHOOSE h \in (t + 1)..(Len(soup) + 1) :
        /\ h <= Len(soup) => soup[h].name = "h1"
        /\ \A k \in (t + 1)..(h - 1) : soup[k].name # "h1"

\* the non-empty texts of the siblings t+1..u-1 joined by single spaces
TextsBetween(t, u) ==
    Join(SelectSeq([k \in 1..(u - t - 1) |-> soup[t + k].text], NonEmpty))

\* the link targets of the siblings t+1..u-1
LinksBetween(t, u) ==
    UNION {{soup[k].links[i] : i \in DOMAIN soup[k].links} : k \in (t + 1)..(u - 1)}

\* C13: what is aggregated for a heading-format finding ends before the first
\* top-level heading after it: the description is the text of siblings up to
\* some position not beyond that heading, and every link that does not come
\* from the finding's own heading comes from a sibling before it
C13_StopsAtTopLevelHeading ==
    Extracting =>
        \A n \in HeadingRecords :
            LET t == origin[n].node
            IN  /\ \E u \in (t + 1)..SectionEnd(t) :
                      all_issues[n].description = TextsBetween(t, u)
                /\ all_issues[n].vulnerable_code_links
                      \subseteq (Range(soup[t].links) \cup LinksBetween(t, SectionEnd(t)))

-----------------------------------------------------------------------------
(* Properties of the section counter *)

\* the records of the section being walked that came before record n
EarlierInSection(n) == {m \in SectionRecords(block) : m < n}

\* the records whose issue_id is built from the counter
Synthesized ==
    {n \in SectionRecords(block) :
        \/ origin[n].format = "numbered"
        \/ /\ origin[n].format = "list"
           /\ LowTagEnd(soup[origin[n].node].items[origin[n].item].atext) = 0}

\* C14: in a Low/Non-Critical section the counter is 1 plus the number of
\* findings recognized so far in that section, whatever their format, list
\* items with their own [L-nn] marker included; a synthesized issue_id after k
\* findings of the section is L-(k+1) on two digits
C14_CounterCountsFindings ==
    (pc = "walk" /\ phase = "low") =>
        /\ issue_counter = 1 + Cardinality(SectionRecords(block))
        /\ \A n \in Synthesized :
              IsLowId(all_issues[n].issue_id, 1 + Cardinality(EarlierInSection(n)))

-----------------------------------------------------------------------------
(* Properties of the aggregation inside a Low/Non-Critical section *)

\* the sub-headings after t, inside its section, that match format 1 or 2
FindingHeadingsAfter(t) ==
    {u \in (t + 1)..(SectionEnd(t) - 1) :
        IsTaggedHeading(soup[u]) \/ IsNumberedHeading(soup[u])}

\* the first of them
NextFindingHeading(t) ==
    CHOOSE u \in FindingHeadingsAfter(t) : \A v \in FindingHeadingsAfter(t) : u <= v

\* C15: in a Low/Non-Critical section the aggregation for a tagged or a
\* bracket-numbered finding stops exactly before the next sub-heading of its
\* section that matches either format: the description is the text of the
\* siblings up to that sub-heading, so a "[nn] Title" ends a "[L-nn]" finding
\* and a sub-heading of neither format does not end a bracket-numbered one
C15_StopsAtNextFindingHeading ==
    Extracting =>
        \A n \in HeadingRecords \cap LowRecords :
            FindingHeadingsAfter(origin[n].node) # {} =>
                all_issues[n].description =
                    TextsBetween(origin[n].node, NextFindingHeading(origin[n].node))

-----------------------------------------------------------------------------
(* Properties of the code links *)

\* the sibling at which the loop of record n stopped
AggregatedEnd(n) ==
    IF origin[n].format = "tagged"
    THEN TaggedStop(soup, origin[n].node)
    ELSE NumberedStop(soup, origin[n].node)

\* the target's host is the code-hosting domain
OnCodeHost(href) == href # <<>> /\ href[1] = "github.com"

\* C16: the links of a tagged or bracket-numbered finding are exactly the
\* distinct link targets on the code-hosting domain found in the siblings that
\* were aggregated after its heading: none on another host, none taken from the
\* heading itself
C16_LinksOfAggregatedSiblings ==
    Extracting =>
        \A n \in HeadingRecords :
            all_issues[n].vulnerable_code_links =
                {h \in LinksBetween(origin[n].node, AggregatedEnd(n)) : OnCodeHost(h)}

-----------------------------------------------------------------------------
(* Properties of the extraction of one document *)

\* C17: the extraction of a fetched document never ends in an exception,
\* whatever malformed heading or list item the document holds: it returns the
\* record of the document or rejects it
C17_ExtractionNeverRaises ==
    \A k \in DOMAIN returned : Fetched(k) => returned[k].kind \in {"record", "none"}


====
